---- MODULE Spec2Model ----
(***************************************************************************)
(* Model of the V4L2 capture client (src/client.c, the memory-mapped       *)
(* producer) and of the streaming storage server (src/unnamed/part_001,    *)
(* the multi-message consumer), joined by a TCP byte stream.               *)
(*                                                                         *)
(* Bytes are the integers 0..255.  A C object that is read back after a    *)
(* partial recv() keeps the bytes the recv() did not overwrite, so the     *)
(* header fields name_len and file_size are modelled as their memory       *)
(* (little-endian byte cells), not as numbers.                             *)
(***************************************************************************)
EXTENDS Integers, Sequences, FiniteSets, TLC

(***************************************************************************)
(* Bounds of the model.                                                    *)
(***************************************************************************)
MaxConns == 2       \* connections the peers open during a run
MaxMsgs == 2        \* messages the peers send during a run
MaxNameLen == 2     \* longest file name a generic peer sends
MaxPayload == 2     \* longest payload, in bytes
MaxShort == 1       \* recv() calls of a run that return less than has arrived
MaxFaults == 1      \* system calls of the producer that fail or fall short in a run
SockBuf == 28       \* bytes the connection buffers between the client's send and the server's recv
MaxNamed == 1       \* messages with a declared name length the peers send during a run
MaxIntr == 2        \* signals that interrupt one invocation of xioctl

(***************************************************************************)
(* Program constants.                                                      *)
(***************************************************************************)
BUFFER_SIZE == 4096     \* chunk size of the streaming server
INT_BYTES == 4          \* sizeof(int): the name_len field
FRAME_COUNT == 10       \* frames of a capture run
NBUF == 4               \* req.count: buffers requested from the driver
LONG_BYTES == 8         \* sizeof(long): the file_size field
NAME_BUF == 256          \* sizeof(filename) in handle_client

Byte == 0..255
U == -1                 \* a memory cell that was never written
NoConn == 0
NoBuf == 0 - 1          \* read_frame holds no dequeued buffer
ProducerConn == 1       \* the connection init_network opens, when the peer is the capture client

Min(a, b) == IF a < b THEN a ELSE b

RECURSIVE LE(_, _)
\* The w low bytes of v >= 0 in the sender's (little-endian) byte order.
LE(v, w) == IF w = 0 THEN <<>> ELSE <<v % 256>> \o LE(v \div 256, w - 1)

Take(s, k) == SubSeq(s, 1, k)
Drop(s, k) == SubSeq(s, k + 1, Len(s))

\* recv() into an object: the first Len(bytes) cells are overwritten.
Overwrite(mem, bytes) ==
  [i \in 1..Len(mem) |-> IF i <= Len(bytes) THEN bytes[i] ELSE mem[i]]

\* The bytes an object holds when the cells never written hold g.
Resolve(mem, g) == [i \in 1..Len(mem) |-> IF mem[i] = U THEN g ELSE mem[i]]

Uninit(w) == [i \in 1..w |-> U]

\* Values an unwritten stack byte is given in the model.
GarbageBytes == {0, 255}

\* The value of a 4-byte int object (two's complement, little endian).
IntVal(m) ==
  m[1] + 256 * m[2] + 65536 * m[3]
    + 16777216 * (IF m[4] >= 128 THEN m[4] - 256 ELSE m[4])

\* A long object: negative, or too large for a 31-bit count, or its value.
LongNeg(m) == m[8] >= 128
LongBig(m) == ~LongNeg(m) /\ ((\E i \in 5..8 : m[i] # 0) \/ m[4] >= 128)
LongLow(m) == m[1] + 256 * m[2] + 65536 * m[3] + 16777216 * m[4]

\* The loop condition as total_received <= file_size.
LongGreater_OrEqual(m, total) ==
  ~LongNeg(m) /\ (IF LongBig(m) THEN TRUE ELSE total <= LongLow(m))

\* total < file_size, for a count total that fits 31 bits.
LongGreater(m, total) ==
  ~LongNeg(m) /\ (IF LongBig(m) THEN TRUE ELSE total < LongLow(m))

\* The C string a zero-filled buffer holds after bytes were stored at its start.
CStr(b) ==
  LET zeros == {i \in 1..Len(b) : b[i] = 0} IN
  IF zeros = {} THEN b
  ELSE Take(b, (CHOOSE i \in zeros : \A j \in zeros : i <= j) - 1)

(***************************************************************************)
(* Wire format: name length, name, payload size, payload.                  *)
(***************************************************************************)
Encode(name, payload) ==
  LE(Len(name), INT_BYTES) \o name \o LE(Len(payload), LONG_BYTES) \o payload

\* sprintf("%04d", n) for 0 <= n <= 9999, as character codes.
Pad4(n) ==
  <<48 + ((n \div 1000) % 10), 48 + ((n \div 100) % 10),
    48 + ((n \div 10) % 10), 48 + (n % 10)>>

\* The frame names with the number taken modulo the number of buffers.
FrameName_PerBuffer(n) ==
  <<102, 114, 97, 109, 101, 95>> \o Pad4(n % NBUF) \o <<46, 114, 97, 119>>

\* sprintf(filename, "frame_%04d.raw", n).
FrameName(n) == <<102, 114, 97, 109, 101, 95>> \o Pad4(n) \o <<46, 114, 97, 119>>

\* The names and payloads the peers send: letters, different in every message.
NameOf(n, t) == [i \in 1..n |-> 96 + i + 8 * t]
PayloadOf(n, t) == [i \in 1..n |-> 64 + i + 8 * t]

ConnIds == 1..MaxConns

VARIABLES
  \* ---- the network and the peers of the server
  sock,            \* connection -> "none" | "pending" | "accepted" | "closed" | "aborted"
  closes,          \* connection -> number of close() calls of the server on it
  net,             \* bytes the peer has sent on the session's connection, not yet read
  peer,            \* "open" | "cut" | "fin" | "rst": the peer of the session's connection
  nmsgs,           \* messages sent by the peers so far
  sentMsgs,        \* the complete messages sent on the session's connection
  shorts,          \* recv() calls so far that returned less than had arrived
  \* ---- the streaming server (part_001)
  spc,             \* position of the server
  active,          \* connections whose handle_client invocation is in progress
  client_socket,   \* handle_client's argument
  name_len,        \* memory of int name_len
  filename,        \* bytes stored at the start of char filename[256]
  file_size,       \* memory of long file_size
  total_received,
  fp,              \* the open FILE, or NoFile
  disk,            \* path -> content of the file
  fopens,          \* files opened by the session
  fcloses,         \* fclose() calls of the session
  lastLog,         \* the last line the server printed
  dropped,         \* connections that ended after the size field, before any payload byte
  \* ---- the capture client (client.c)
  cpc,             \* position of the client
  qi,              \* loop index of start_capturing
  streaming,       \* VIDIOC_STREAMON succeeded
  devQueue,        \* driver's incoming queue: empty buffers, in order
  doneQueue,       \* driver's outgoing queue: filled buffers, in order
  buf_index,       \* buf.index of the buffer read_frame has dequeued, or NoBuf
  bytesused,       \* buf.bytesused of that buffer
  payload,         \* the bytes the mapped buffer holds
  qbufFailed,      \* buffers whose last VIDIOC_QBUF failed
  count,           \* main_loop's remaining counter
  frame_number,
  total_sent,
  txPayload,       \* payload bytes of the current frame accepted by send()
  txWhole,         \* every header send() of the current frame was accepted in full
  wire,            \* the bytes the sends of the current frame have put on the socket
  captured,        \* used lengths of the frames dequeued so far, on a connection to the server
  faults,          \* failed or short system calls so far
  fatal,           \* the fatal error the capture loop has met: "none" | "select" | "dqbuf"
  clog,            \* the last line the client printed
  \* ---- one invocation of xioctl (client.c)
  xpc,             \* position in xioctl: "idle" | "call" | "test" | "returned"
  request,         \* xioctl's argument request
  ret,             \* memory of int r, the value xioctl returns
  errno,           \* the thread's errno
  results,         \* the ioctl() calls of the invocation so far: request, result, errno
  signals          \* signals still to arrive during the invocation

netVars == <<sock, closes, net, peer, nmsgs, sentMsgs, shorts>>
srvVars == <<spc, active, client_socket, name_len, filename, file_size,
             total_received, fp, disk, fopens, fcloses, lastLog, dropped>>
cliVars == <<cpc, qi, streaming, devQueue, doneQueue, buf_index,
             bytesused, payload, qbufFailed, count, frame_number, total_sent,
             txPayload, txWhole, wire, captured, faults, fatal, clog>>
xioVars == <<xpc, request, ret, errno, results, signals>>
vars == <<netVars, srvVars, cliVars, xioVars>>

NoFile == [open |-> FALSE, path |-> <<>>]
NoLog == [kind |-> "none", received |-> 0, size |-> <<>>]

(***************************************************************************)
(* The state after the server has bound and listens (part_001 main, up to  *)
(* the accept loop); no connection exists yet.                             *)
(***************************************************************************)
NetInit ==
  /\ sock = [c \in ConnIds |-> "none"]
  /\ closes = [c \in ConnIds |-> 0]
  /\ net = <<>>
  /\ peer = "open"
  /\ nmsgs = 0
  /\ sentMsgs = <<>>
  /\ shorts = 0

ServerInit ==
  /\ spc = "accept"
  /\ active = {}
  /\ client_socket = NoConn
  /\ name_len = Uninit(INT_BYTES)
  /\ filename = <<>>
  /\ file_size = Uninit(LONG_BYTES)
  /\ total_received = 0
  /\ fp = NoFile
  /\ disk = <<>>
  /\ fopens = 0
  /\ fcloses = 0
  /\ lastLog = NoLog
  /\ dropped = {}

(***************************************************************************)
(* The peers of the server: any TCP client.                                *)
(***************************************************************************)
\* A client connects: the connection waits in the listen backlog.
PeerConnect ==
  /\ \E c \in ConnIds :
       /\ sock[c] = "none"
       /\ \A d \in ConnIds : d < c => sock[d] # "none"
       /\ sock' = [sock EXCEPT ![c] = "pending"]
  /\ UNCHANGED <<closes, net, peer, nmsgs, sentMsgs, shorts>>
  /\ UNCHANGED srvVars
  /\ UNCHANGED xioVars
  /\ UNCHANGED cliVars
  /\ UNCHANGED xioVars

\* The t-th message of a run (t from 0) with the given name and payload
\* length: a short arbitrary name, or the name the capture client gives its
\* t-th frame.
Msg(t, nl, pl) ==
  [name |-> IF nl = Len(FrameName(t)) THEN FrameName(t) ELSE NameOf(nl, t),
   payload |-> PayloadOf(pl, t)]
MsgShapes == ((0..MaxNameLen) \cup {Len(FrameName(0))}) \X (0..MaxPayload)

RECURSIVE EncodeAll(_)
EncodeAll(ms) ==
  IF ms = <<>> THEN <<>>
  ELSE Encode(Head(ms).name, Head(ms).payload) \o EncodeAll(Tail(ms))

\* The peer of the session writes one or more messages back to back; of the
\* last one it may write only the first cut bytes.
PeerSend ==
  /\ client_socket # NoConn
  /\ peer = "open"
  /\ net = <<>>
  /\ \E k \in 1..(MaxMsgs - nmsgs) :
       \E shape \in [1..k -> MsgShapes] :
         LET ms == [i \in 1..k |-> Msg(nmsgs + i - 1, shape[i][1], shape[i][2])]
             whole == [i \in 1..(k - 1) |-> ms[i]]
             last == Encode(ms[k].name, ms[k].payload)
         IN \E cut \in 1..Len(last) :
              /\ net' = EncodeAll(whole) \o Take(last, cut)
              /\ IF cut = Len(last)
                   THEN /\ sentMsgs' = sentMsgs \o ms
                        /\ peer' = "open"
                   ELSE /\ sentMsgs' = sentMsgs \o whole
                        /\ peer' = "cut"
              /\ nmsgs' = nmsgs + k
  /\ UNCHANGED <<sock, closes, shorts>>
  /\ UNCHANGED srvVars
  /\ UNCHANGED xioVars
  /\ UNCHANGED cliVars
  /\ UNCHANGED xioVars

\* The peer closes its end (FIN, seen after the data) or the connection is
\* reset, once the server has read what was sent.
PeerClose ==
  /\ client_socket # NoConn
  /\ peer \in {"open", "cut"}
  /\ net = <<>>
  /\ \E how \in {"fin", "rst"} : peer' = how
  /\ UNCHANGED <<sock, closes, net, nmsgs, sentMsgs, shorts>>
  /\ UNCHANGED srvVars
  /\ UNCHANGED xioVars
  /\ UNCHANGED cliVars
  /\ UNCHANGED xioVars

(***************************************************************************)
(* recv(client_socket, buf, n, 0) on a blocking stream socket: it returns  *)
(* between 1 and n of the bytes that have arrived, 0 at end of stream, -1  *)
(* on a reset, and blocks while nothing has arrived and the peer is silent.*)
(***************************************************************************)
CanRecv == net # <<>> \/ peer \in {"fin", "rst"}
RecvCounts(n) ==
  {Min(n, Len(net))} \cup (IF shorts < MaxShort THEN 1..Min(n, Len(net)) ELSE {})
ShortsAfter(n, k) == IF k < Min(n, Len(net)) THEN shorts + 1 ELSE shorts

Log(kind) == [kind |-> kind, received |-> total_received, size |-> file_size]
MainLog(kind) == [kind |-> kind, received |-> 0, size |-> <<>>]

\* handle_client returns: its locals are gone.
LocalsDie ==
  /\ name_len' = Uninit(INT_BYTES)
  /\ file_size' = Uninit(LONG_BYTES)
  /\ filename' = <<>>
  /\ total_received' = 0

(***************************************************************************)
(* part_001 main: the accept loop.                                         *)
(***************************************************************************)
Pending == {c \in ConnIds : sock[c] = "pending"}
NextPending == CHOOSE c \in Pending : \A d \in Pending : c <= d

\* Mutant: a listener that accepts while a handler is still running.
AcceptGuard_Concurrent == TRUE

\* main calls accept() only at the top of its loop, after handle_client returned.
AcceptGuard == spc = "accept"

Accept ==
  /\ AcceptGuard
  /\ Pending # {}
  /\ LET c == NextPending IN
       /\ sock' = [sock EXCEPT ![c] = "accepted"]
       /\ client_socket' = c
       /\ active' = active \cup {c}
  /\ spc' = "recv_name_len"
  /\ LocalsDie
  /\ fopens' = 0
  /\ fcloses' = 0
  /\ sentMsgs' = <<>>
  /\ lastLog' = MainLog("connected")
  /\ UNCHANGED <<closes, net, peer, nmsgs, shorts, fp, disk, dropped>>
  /\ UNCHANGED cliVars
  /\ UNCHANGED xioVars

\* accept() fails (the pending connection was aborted): perror, continue.
AcceptFail ==
  /\ AcceptGuard
  /\ Pending # {}
  /\ sock' = [sock EXCEPT ![NextPending] = "aborted"]
  /\ lastLog' = MainLog("accept_failed")
  /\ UNCHANGED <<closes, net, peer, nmsgs, sentMsgs, shorts>>
  /\ UNCHANGED <<spc, active, client_socket, name_len, filename, file_size,
                 total_received, fp, disk, fopens, fcloses, dropped>>
  /\ UNCHANGED cliVars
  /\ UNCHANGED xioVars

(***************************************************************************)
(* part_001 handle_client: one action per blocking call.                   *)
(***************************************************************************)
\* AwaitingNameLength: recv(client_socket, &name_len, sizeof(name_len), 0).
RecvNameLen ==
  /\ spc = "recv_name_len"
  /\ CanRecv
  /\ IF net # <<>>
       THEN \E k \in RecvCounts(INT_BYTES), g \in GarbageBytes :
              /\ name_len' = Resolve(Overwrite(name_len, Take(net, k)), g)
              /\ net' = Drop(net, k)
              /\ shorts' = ShortsAfter(INT_BYTES, k)
              /\ spc' = "recv_name"
              /\ lastLog' = lastLog
       ELSE /\ lastLog' = Log("disconnected")
            /\ spc' = "close"
            /\ UNCHANGED <<name_len, net, shorts>>
  /\ UNCHANGED <<sock, closes, peer, nmsgs, sentMsgs>>
  /\ UNCHANGED <<active, client_socket, filename, file_size, total_received,
                 fp, disk, fopens, fcloses, dropped>>
  /\ UNCHANGED cliVars
  /\ UNCHANGED xioVars

\* The length recv() is given for the name: (size_t)name_len, so a negative
\* name_len asks for more than any stream of the model holds.
NameRequest == IF IntVal(name_len) < 0 THEN Len(net) ELSE IntVal(name_len)

\* The name's recv() returned <= 0 and the message is read on as if it had not.
NameErrorPc_ReadOn == "recv_size"

\* Where handle_client goes when the name's recv() returns <= 0: break.
NameErrorPc == "close"

\* Where handle_client is after recv() stored k bytes at the start of the
\* NAME_BUF bytes of filename: more than NAME_BUF bytes went past the end of
\* the array, and what the program does from there is not defined.
NameStoredPc(k) == IF k > NAME_BUF THEN "overflow" ELSE "recv_size"

\* The zero-filled name buffer still ends in a 0 behind the stored bytes.
Terminated == Len(CStr(filename)) < NAME_BUF

\* AwaitingName: memset(filename, 0, ...); recv(client_socket, filename, name_len, 0).
\* A request of 0 bytes returns 0 at once.
RecvName ==
  /\ spc = "recv_name"
  /\ IntVal(name_len) = 0 \/ CanRecv
  /\ IF IntVal(name_len) # 0 /\ net # <<>>
       THEN \E k \in RecvCounts(NameRequest) :
              /\ filename' = Take(net, k)
              /\ net' = Drop(net, k)
              /\ shorts' = ShortsAfter(NameRequest, k)
              /\ spc' = NameStoredPc(k)
              /\ lastLog' = lastLog
       ELSE /\ filename' = <<>>
            /\ lastLog' = Log("name_error")
            /\ spc' = NameErrorPc
            /\ UNCHANGED <<net, shorts>>
  /\ UNCHANGED <<sock, closes, peer, nmsgs, sentMsgs>>
  /\ UNCHANGED <<active, client_socket, name_len, file_size, total_received,
                 fp, disk, fopens, fcloses, dropped>>
  /\ UNCHANGED cliVars
  /\ UNCHANGED xioVars

\* The size's recv() returned <= 0 and the file is opened all the same.
SizeErrorPc_Open == "fopen"

\* Where handle_client goes when the size's recv() returns <= 0: break.
SizeErrorPc == "close"

\* AwaitingSize: recv(client_socket, &file_size, sizeof(file_size), 0).
RecvSize ==
  /\ spc = "recv_size"
  /\ CanRecv
  /\ IF net # <<>>
       THEN \E k \in RecvCounts(LONG_BYTES), g \in GarbageBytes :
              /\ file_size' = Resolve(Overwrite(file_size, Take(net, k)), g)
              /\ net' = Drop(net, k)
              /\ shorts' = ShortsAfter(LONG_BYTES, k)
              /\ spc' = "fopen"
              /\ lastLog' = [Log("incoming") EXCEPT !.size = file_size']
       ELSE /\ lastLog' = Log("size_error")
            /\ spc' = SizeErrorPc
            /\ UNCHANGED <<file_size, net, shorts>>
  /\ UNCHANGED <<sock, closes, peer, nmsgs, sentMsgs>>
  /\ UNCHANGED <<active, client_socket, name_len, filename, total_received,
                 fp, disk, fopens, fcloses, dropped>>
  /\ UNCHANGED cliVars
  /\ UNCHANGED xioVars

\* handle_client going on to the next message of the connection when fopen()
\* returns NULL.
FopenFailed_NextMessage ==
  /\ lastLog' = MainLog("create_error")
  /\ spc' = "recv_name_len"
  /\ UNCHANGED <<dropped, name_len, file_size, filename, total_received,
                 active, client_socket, net, peer, sock, closes, fp, disk,
                 fopens>>

\* What handle_client does when fopen() returns NULL: perror and return.
FopenFailed ==
  /\ lastLog' = MainLog("create_error")
  /\ dropped' = dropped
  /\ LocalsDie
  /\ spc' = "accept"
  /\ active' = active \ {client_socket}
  /\ client_socket' = NoConn
  /\ net' = <<>>
  /\ peer' = "open"
  /\ UNCHANGED <<sock, closes, fp, disk, fopens>>

\* fopen(filename, "wb"), then total_received = 0.  The empty path cannot be
\* created; any other creation may fail as well.
OpenFile ==
  /\ spc = "fopen"
  /\ Terminated
  /\ LET path == CStr(filename) IN
       \E ok \in BOOLEAN :
         /\ ok => path # <<>>
         /\ IF ok
              THEN /\ fp' = [open |-> TRUE, path |-> path]
                   /\ UNCHANGED <<name_len, filename, file_size>>
                   /\ disk' = (path :> <<>>) @@ disk
                   /\ fopens' = fopens + 1
                   /\ total_received' = 0
                   /\ spc' = "payload"
                   /\ UNCHANGED <<sock, closes, active, client_socket, lastLog,
                                  net, peer, dropped>>
              ELSE FopenFailed
  /\ UNCHANGED <<nmsgs, sentMsgs, shorts, fcloses>>
  /\ UNCHANGED cliVars
  /\ UNCHANGED xioVars

\* Every read of the payload loop asks for a whole chunk.
BytesToRead_Chunk == BUFFER_SIZE

\* bytes_to_read: the missing bytes, at most BUFFER_SIZE.
BytesToRead ==
  IF LongBig(file_size) THEN BUFFER_SIZE
  ELSE Min(LongLow(file_size) - total_received, BUFFER_SIZE)

\* Mutant: the abort path leaves the function's loop without fclose().
PayloadAbortPc_SkipClose == "close"

\* Where the payload loop goes on a recv() that returns <= 0: break.
PayloadAbortPc == "fclose"

\* The payload loop writing each chunk at the start of the file.
PayloadRecv_Prepend ==
  /\ spc = "payload"
  /\ LongGreater(file_size, total_received)
  /\ CanRecv
  /\ IF net # <<>>
       THEN \E k \in RecvCounts(BytesToRead) :
              /\ disk' = [disk EXCEPT ![fp.path] = Take(net, k) \o @]
              /\ total_received' = total_received + k
              /\ net' = Drop(net, k)
              /\ shorts' = ShortsAfter(BytesToRead, k)
              /\ UNCHANGED <<spc, lastLog, dropped>>
       ELSE /\ lastLog' = Log("unexpected_disconnection")
            /\ spc' = PayloadAbortPc
            /\ dropped' = IF total_received = 0
                             THEN dropped \cup {client_socket} ELSE dropped
            /\ UNCHANGED <<disk, total_received, net, shorts>>
  /\ UNCHANGED <<sock, closes, peer, nmsgs, sentMsgs>>
  /\ UNCHANGED <<active, client_socket, name_len, filename, file_size,
                 fp, fopens, fcloses>>
  /\ UNCHANGED cliVars
  /\ UNCHANGED xioVars

\* AwaitingPayload, one iteration of while (total_received < file_size):
\* recv a chunk and fwrite it, or break on a recv that returns <= 0.
PayloadRecv ==
  /\ spc = "payload"
  /\ LongGreater(file_size, total_received)
  /\ CanRecv
  /\ IF net # <<>>
       THEN \E k \in RecvCounts(BytesToRead) :
              /\ disk' = [disk EXCEPT ![fp.path] = @ \o Take(net, k)]
              /\ total_received' = total_received + k
              /\ net' = Drop(net, k)
              /\ shorts' = ShortsAfter(BytesToRead, k)
              /\ UNCHANGED <<spc, lastLog, dropped>>
       ELSE /\ lastLog' = Log("unexpected_disconnection")
            /\ spc' = PayloadAbortPc
            /\ dropped' = IF total_received = 0
                             THEN dropped \cup {client_socket} ELSE dropped
            /\ UNCHANGED <<disk, total_received, net, shorts>>
  /\ UNCHANGED <<sock, closes, peer, nmsgs, sentMsgs>>
  /\ UNCHANGED <<active, client_socket, name_len, filename, file_size,
                 fp, fopens, fcloses>>
  /\ UNCHANGED cliVars
  /\ UNCHANGED xioVars

\* The loop condition total_received < file_size is false: leave the loop.
PayloadDone ==
  /\ spc = "payload"
  /\ ~LongGreater(file_size, total_received)
  /\ spc' = "fclose"
  /\ UNCHANGED netVars
  /\ UNCHANGED <<active, client_socket, name_len, filename, file_size,
                 total_received, fp, disk, fopens, fcloses, lastLog, dropped>>
  /\ UNCHANGED cliVars
  /\ UNCHANGED xioVars

\* The line printed after the payload loop.
AfterLoopLog == Log("saved")

\* Mutant: Done without fclose(): the handle stays open into the next message.
CloseFile_Leak ==
  /\ spc = "fclose"
  /\ lastLog' = AfterLoopLog
  /\ spc' = "recv_name_len"
  /\ UNCHANGED netVars
  /\ UNCHANGED <<active, client_socket, name_len, filename, file_size,
                 total_received, disk, fopens, dropped, fp, fcloses>>
  /\ UNCHANGED cliVars
  /\ UNCHANGED xioVars

\* Done: fclose(fp); printf("Successfully saved"); next iteration of while(1).
CloseFile ==
  /\ spc = "fclose"
  /\ fp' = NoFile
  /\ fcloses' = fcloses + 1
  /\ lastLog' = AfterLoopLog
  /\ spc' = "recv_name_len"
  /\ UNCHANGED netVars
  /\ UNCHANGED <<active, client_socket, name_len, filename, file_size,
                 total_received, disk, fopens, dropped>>
  /\ UNCHANGED cliVars
  /\ UNCHANGED xioVars

\* After the while(1) loop: close(client_socket) and return to main.
CloseSocket ==
  /\ spc = "close"
  /\ sock' = [sock EXCEPT ![client_socket] = "closed"]
  /\ closes' = [closes EXCEPT ![client_socket] = @ + 1]
  /\ active' = active \ {client_socket}
  /\ client_socket' = NoConn
  /\ spc' = "accept"
  /\ net' = <<>>
  /\ peer' = "open"
  /\ lastLog' = MainLog("session_ended")
  /\ LocalsDie
  /\ UNCHANGED <<nmsgs, sentMsgs, shorts>>
  /\ UNCHANGED <<fp, disk, fopens, fcloses, dropped>>
  /\ UNCHANGED cliVars
  /\ UNCHANGED xioVars

(***************************************************************************)
(* client.c, the V4L2 producer.  Its state after init_network and          *)
(* init_camera: connected, NBUF buffers mapped, none queued yet.           *)
(***************************************************************************)
Buffers == 0..(NBUF - 1)

\* No invocation of xioctl is followed.
XioctlIdle ==
  /\ xpc = "idle"
  /\ request = "none"
  /\ ret = 0
  /\ errno = "none"
  /\ results = <<>>
  /\ signals = 0

ClientStart(f) ==
  /\ XioctlIdle
  /\ cpc = "start_qbuf"
  /\ qi = 0
  /\ streaming = FALSE
  /\ devQueue = <<>>
  /\ doneQueue = <<>>
  /\ buf_index = NoBuf
  /\ bytesused = 0
  /\ payload = <<>>
  /\ qbufFailed = {}
  /\ count = FRAME_COUNT
  /\ frame_number = 0
  /\ total_sent = 0
  /\ txPayload = <<>>
  /\ txWhole = TRUE
  /\ wire = <<>>
  /\ captured = <<>>
  /\ faults = f
  /\ fatal = "none"
  /\ clog = "none"

ClientInit == ClientStart(0)

\* No capture client runs: the server's peers are arbitrary.
ClientOff ==
  /\ cpc = "off"
  /\ qi = 0
  /\ streaming = FALSE
  /\ devQueue = <<>>
  /\ doneQueue = <<>>
  /\ buf_index = NoBuf
  /\ bytesused = 0
  /\ payload = <<>>
  /\ qbufFailed = {}
  /\ count = 0
  /\ frame_number = 0
  /\ total_sent = 0
  /\ txPayload = <<>>
  /\ txWhole = TRUE
  /\ wire = <<>>
  /\ captured = <<>>
  /\ faults = 0
  /\ fatal = "none"
  /\ clog = "none"

ClientIdle == ClientOff /\ XioctlIdle

\* A call may fail while the run's allowance lasts.  A run that starts with a
\* count below zero grants the device that many refusals of a buffer in
\* start_capturing, on top of the allowance.
CanFault == faults < MaxFaults /\ (faults < 0 => cpc = "start_qbuf")

\* The capture client is the peer of the server's first connection.
Linked == cpc # "off" /\ sock[ProducerConn] # "none"

\* The server has not closed the client's connection.
ConnUp == Linked /\ sock[ProducerConn] \in {"pending", "accepted"}

\* send(fd_sock, data, n, 0) returns n, or, as a fault, fewer bytes or -1.
SendResults(n) == {n} \cup (IF CanFault THEN {0 - 1} \cup 1..(n - 1) ELSE {})

\* A blocking send() waits while the connection's buffer has no room; on a
\* connection the server has closed it does not return (see SigPipe).
HasRoom(data) == Linked => ConnUp /\ Len(net) + Len(data) <= SockBuf

\* The effect of a send() of data that returned r: the first r bytes are on
\* the socket.
Transmit(before, data, r) ==
  /\ HasRoom(data)
  /\ wire' = IF r > 0 THEN before \o Take(data, r) ELSE before
  /\ faults' = IF r # Len(data) THEN faults + 1 ELSE faults
  /\ net' = IF ConnUp /\ r > 0 THEN net \o Take(data, r) ELSE net
  /\ UNCHANGED <<sock, closes, peer, nmsgs, sentMsgs, shorts>>

\* start_capturing, one VIDIOC_QBUF of its loop: a failure is only reported.
StartQbuf ==
  /\ cpc = "start_qbuf"
  /\ qi < NBUF
  /\ \E ok \in BOOLEAN :
       /\ ~ok => CanFault
       /\ IF ok
            THEN /\ devQueue' = Append(devQueue, qi)
                 /\ UNCHANGED <<qbufFailed, faults, clog>>
            ELSE /\ qbufFailed' = qbufFailed \cup {qi}
                 /\ faults' = faults + 1
                 /\ clog' = "Queue Buffer error"
                 /\ UNCHANGED devQueue
  /\ qi' = qi + 1
  /\ UNCHANGED <<cpc, streaming, doneQueue, buf_index, bytesused,
                 payload, count, frame_number, total_sent, txPayload, txWhole,
                 wire, fatal>>
  /\ UNCHANGED captured
  /\ UNCHANGED netVars
  /\ UNCHANGED srvVars
  /\ UNCHANGED xioVars

\* start_capturing, VIDIOC_STREAMON (a failure is only reported), then main
\* enters main_loop with count = FRAME_COUNT.
StreamOn ==
  /\ cpc = "start_qbuf"
  /\ qi = NBUF
  /\ \E ok \in BOOLEAN :
       /\ ~ok => CanFault
       /\ streaming' = ok
       /\ faults' = IF ok THEN faults ELSE faults + 1
       /\ clog' = IF ok THEN "Starting capture loop" ELSE "Stream ON error"
  /\ cpc' = "select"
  /\ count' = FRAME_COUNT
  /\ UNCHANGED <<qi, devQueue, doneQueue, buf_index, bytesused,
                 payload, qbufFailed, frame_number, total_sent, txPayload,
                 txWhole, wire, fatal>>
  /\ UNCHANGED captured
  /\ UNCHANGED netVars
  /\ UNCHANGED srvVars
  /\ UNCHANGED xioVars

\* The camera fills the buffer at the head of the incoming queue.
DeviceFill ==
  /\ streaming
  /\ devQueue # <<>>
  /\ doneQueue' = Append(doneQueue, Head(devQueue))
  /\ devQueue' = Tail(devQueue)
  /\ UNCHANGED <<cpc, qi, streaming, buf_index, bytesused, payload,
                 qbufFailed, count, frame_number, total_sent, txPayload, txWhole,
                 wire, faults, fatal, clog>>
  /\ UNCHANGED captured
  /\ UNCHANGED netVars
  /\ UNCHANGED srvVars
  /\ UNCHANGED xioVars

\* main_loop: select() reports the camera readable (a filled buffer waits,
\* or, as a fault, none does).
SelectReady ==
  /\ cpc = "select"
  /\ count > 0
  /\ doneQueue # <<>> \/ CanFault
  /\ faults' = IF doneQueue = <<>> THEN faults + 1 ELSE faults
  /\ cpc' = "dqbuf"
  /\ UNCHANGED <<qi, streaming, devQueue, doneQueue, buf_index,
                 bytesused, payload, qbufFailed, count, frame_number, total_sent,
                 txPayload, txWhole, wire, fatal, clog>>
  /\ UNCHANGED captured
  /\ UNCHANGED netVars
  /\ UNCHANGED srvVars
  /\ UNCHANGED xioVars

\* main_loop leaving its loop on a timeout of select().
SelectTimeout_Break ==
  /\ cpc = "select"
  /\ count > 0
  /\ doneQueue = <<>>
  /\ cpc' = "closing"
  /\ UNCHANGED clog
  /\ UNCHANGED <<qi, streaming, devQueue, doneQueue,
                 buf_index, bytesused, payload, qbufFailed, count, frame_number,
                 total_sent, txPayload, txWhole, wire, faults, fatal>>
  /\ UNCHANGED captured
  /\ UNCHANGED netVars
  /\ UNCHANGED srvVars
  /\ UNCHANGED xioVars

\* main_loop: select() returns 0 after 2 seconds: report and wait again.
SelectTimeout ==
  /\ cpc = "select"
  /\ count > 0
  /\ doneQueue = <<>>
  /\ UNCHANGED clog
  /\ UNCHANGED <<cpc, qi, streaming, devQueue, doneQueue,
                 buf_index, bytesused, payload, qbufFailed, count, frame_number,
                 total_sent, txPayload, txWhole, wire, faults, fatal>>
  /\ UNCHANGED captured
  /\ UNCHANGED netVars
  /\ UNCHANGED srvVars
  /\ UNCHANGED xioVars

\* main_loop: select() returns -1: break.
SelectError ==
  /\ cpc = "select"
  /\ count > 0
  /\ CanFault
  /\ faults' = faults + 1
  /\ fatal' = "select"
  /\ clog' = "Select system call error"
  /\ cpc' = "closing"
  /\ UNCHANGED <<qi, streaming, devQueue, doneQueue, buf_index,
                 bytesused, payload, qbufFailed, count, frame_number, total_sent,
                 txPayload, txWhole, wire>>
  /\ UNCHANGED captured
  /\ UNCHANGED netVars
  /\ UNCHANGED srvVars
  /\ UNCHANGED xioVars

\* main_loop: while (count > 0) is false.
LoopExit ==
  /\ cpc = "select"
  /\ count <= 0
  /\ cpc' = "closing"
  /\ clog' = "Operations finished"
  /\ UNCHANGED <<qi, streaming, devQueue, doneQueue, buf_index,
                 bytesused, payload, qbufFailed, count, frame_number, total_sent,
                 txPayload, txWhole, wire, faults, fatal>>
  /\ UNCHANGED captured
  /\ UNCHANGED netVars
  /\ UNCHANGED srvVars
  /\ UNCHANGED xioVars

\* main_loop leaving the counter alone whatever read_frame returned.
CountAfter_Keep(r) == count

\* main_loop's use of read_frame's result r: if (read_frame()) count--.
CountAfter(r) == IF r # 0 THEN count - 1 ELSE count

\* main_loop leaving its loop when read_frame reports that no buffer is ready.
LoopAfter_Break(r) == IF r = 0 THEN "closing" ELSE "select"

\* Where main_loop goes after read_frame returned r.
LoopAfter(r) == "select"

\* The used lengths the device may report for the next frame: any, and on a
\* connection to the server any for the first frame and then the lengths in
\* turn, so that a run of FRAME_COUNT frames meets every length.
UsedLengths ==
  IF Linked /\ captured # <<>>
    THEN {(captured[Len(captured)] + 1) % (MaxPayload + 1)}
    ELSE 0..MaxPayload

\* read_frame: VIDIOC_DQBUF.  It hands out the oldest filled buffer with its
\* used length; with none filled it fails with EAGAIN (return 0); any other
\* failure returns -1.
Dqbuf ==
  /\ cpc = "dqbuf"
  /\ \/ /\ doneQueue # <<>>
        /\ buf_index' = Head(doneQueue)
        /\ doneQueue' = Tail(doneQueue)
        /\ \E n \in UsedLengths :
             /\ bytesused' = n
             /\ payload' = PayloadOf(n, frame_number)
             /\ captured' = IF Linked THEN Append(captured, n) ELSE captured
        /\ cpc' = "send_name_len"
        /\ UNCHANGED <<count, faults, fatal, clog>>
     \/ /\ doneQueue = <<>>
        /\ cpc' = LoopAfter(0)
        /\ count' = CountAfter(0)
        /\ UNCHANGED <<buf_index, doneQueue, bytesused, payload, captured, faults,
                       fatal, clog>>
     \/ /\ CanFault
        /\ faults' = faults + 1
        /\ fatal' = "dqbuf"
        /\ clog' = "Dequeue Buffer error"
        /\ cpc' = LoopAfter(0 - 1)
        /\ count' = CountAfter(0 - 1)
        /\ UNCHANGED <<buf_index, doneQueue, bytesused, payload, captured>>
  /\ UNCHANGED <<qi, streaming, devQueue, qbufFailed,
                 frame_number, total_sent, txPayload, txWhole, wire>>
  /\ UNCHANGED netVars
  /\ UNCHANGED srvVars
  /\ UNCHANGED xioVars

\* send_frame_via_network: sprintf(filename, ..., frame_number++), then
\* send(fd_sock, &name_len, sizeof(name_len), 0); the result is not looked at.
SendNameLen ==
  /\ cpc = "send_name_len"
  /\ frame_number' = frame_number + 1
  /\ total_sent' = 0
  /\ txPayload' = <<>>
  /\ \E r \in SendResults(INT_BYTES) :
       /\ Transmit(<<>>, LE(Len(FrameName(frame_number)), INT_BYTES), r)
       /\ txWhole' = (r = INT_BYTES)
  /\ cpc' = "send_name"
  /\ UNCHANGED <<qi, streaming, devQueue, doneQueue, buf_index,
                 bytesused, payload, qbufFailed, count, fatal, clog>>
  /\ UNCHANGED captured
  /\ UNCHANGED srvVars
  /\ UNCHANGED xioVars

\* The name of the frame being sent (frame_number was already incremented).
CurName == FrameName(frame_number - 1)

\* send(fd_sock, filename, name_len, 0); the result is not looked at.
SendName ==
  /\ cpc = "send_name"
  /\ \E r \in SendResults(Len(CurName)) :
       /\ Transmit(wire, CurName, r)
       /\ txWhole' = (txWhole /\ r = Len(CurName))
  /\ cpc' = "send_size"
  /\ UNCHANGED <<qi, streaming, devQueue, doneQueue, buf_index,
                 bytesused, payload, qbufFailed, count, frame_number, total_sent,
                 txPayload, fatal, clog>>
  /\ UNCHANGED captured
  /\ UNCHANGED srvVars
  /\ UNCHANGED xioVars

\* send(fd_sock, &file_size, sizeof(file_size), 0) with file_size = bytesused;
\* then the payload loop is entered if 0 < file_size.
SendSize ==
  /\ cpc = "send_size"
  /\ \E r \in SendResults(LONG_BYTES) :
       /\ Transmit(wire, LE(bytesused, LONG_BYTES), r)
       /\ txWhole' = (txWhole /\ r = LONG_BYTES)
       /\ IF total_sent < bytesused
            THEN cpc' = "send_payload" /\ UNCHANGED clog
            ELSE cpc' = "qbuf" /\ clog' = "Successfully transmitted"
  /\ UNCHANGED <<qi, streaming, devQueue, doneQueue, buf_index,
                 bytesused, payload, qbufFailed, count, frame_number, total_sent,
                 txPayload, fatal>>
  /\ UNCHANGED captured
  /\ UNCHANGED srvVars
  /\ UNCHANGED xioVars

\* The payload loop tries again after a send() that returned sent < 0.
SendErrorPc_Retry == "send_payload"

\* What the payload loop does after a send() that returned sent < 0: break.
SendErrorPc == "qbuf"

\* One iteration of while (total_sent < file_size): send the rest from offset
\* total_sent; a negative result leaves the loop, any other is added.
SendPayload ==
  /\ cpc = "send_payload"
  /\ total_sent < bytesused
  /\ \E r \in SendResults(bytesused - total_sent) :
       LET rest == SubSeq(payload, total_sent + 1, bytesused) IN
       /\ Transmit(wire, rest, r)
       /\ IF r < 0
            THEN /\ cpc' = SendErrorPc
                 /\ UNCHANGED <<total_sent, txPayload>>
                 /\ clog' = "Successfully transmitted"
            ELSE /\ total_sent' = total_sent + r
                 /\ txPayload' = txPayload \o Take(rest, r)
                 /\ IF total_sent + r < bytesused
                      THEN cpc' = "send_payload" /\ UNCHANGED clog
                      ELSE cpc' = "qbuf" /\ clog' = "Successfully transmitted"
  /\ UNCHANGED <<qi, streaming, devQueue, doneQueue, buf_index,
                 bytesused, payload, qbufFailed, count, frame_number, txWhole, fatal>>
  /\ UNCHANGED captured
  /\ UNCHANGED srvVars
  /\ UNCHANGED xioVars

\* read_frame giving back the buffer after the one it dequeued.
RequeueIndex_Next == (buf_index + 1) % NBUF

\* The buffer read_frame gives back: buf.index, as VIDIOC_DQBUF set it.
RequeueIndex == buf_index

\* read_frame treating a failed VIDIOC_QBUF as fatal: the frame is not
\* counted and main_loop leaves its loop.
Qbuf_FailureFatal ==
  /\ cpc = "qbuf"
  /\ \E ok \in BOOLEAN :
       /\ ~ok => CanFault
       /\ IF ok
            THEN /\ devQueue' = Append(devQueue, RequeueIndex)
                 /\ cpc' = LoopAfter(1)
                 /\ count' = CountAfter(1)
                 /\ UNCHANGED <<qbufFailed, faults, clog>>
            ELSE /\ qbufFailed' = qbufFailed \cup {buf_index}
                 /\ faults' = faults + 1
                 /\ clog' = "Re-Queue Buffer error"
                 /\ cpc' = "closing"
                 /\ UNCHANGED <<devQueue, count>>
  /\ buf_index' = NoBuf
  /\ UNCHANGED <<qi, streaming, doneQueue, bytesused, payload,
                 frame_number, total_sent, txPayload, txWhole, wire, fatal>>
  /\ UNCHANGED captured
  /\ UNCHANGED netVars
  /\ UNCHANGED srvVars
  /\ UNCHANGED xioVars

\* read_frame: VIDIOC_QBUF of the buffer just sent (a failure is only
\* reported), return 1; main_loop then counts the frame.
Qbuf ==
  /\ cpc = "qbuf"
  /\ \E ok \in BOOLEAN :
       /\ ~ok => CanFault
       /\ IF ok
            THEN /\ devQueue' = Append(devQueue, RequeueIndex)
                 /\ UNCHANGED <<qbufFailed, faults, clog>>
            ELSE /\ qbufFailed' = qbufFailed \cup {buf_index}
                 /\ faults' = faults + 1
                 /\ clog' = "Re-Queue Buffer error"
                 /\ UNCHANGED devQueue
  /\ buf_index' = NoBuf
  /\ cpc' = LoopAfter(1)
  /\ count' = CountAfter(1)
  /\ UNCHANGED <<qi, streaming, doneQueue, bytesused, payload,
                 frame_number, total_sent, txPayload, txWhole, wire, fatal>>
  /\ UNCHANGED captured
  /\ UNCHANGED netVars
  /\ UNCHANGED srvVars
  /\ UNCHANGED xioVars

\* main after main_loop: close(fd_sock); close(fd_cam); return 0.
CloseAll ==
  /\ cpc = "closing"
  /\ cpc' = "exited"
  /\ streaming' = FALSE
  /\ peer' = IF ConnUp THEN "fin" ELSE peer
  /\ UNCHANGED <<sock, closes, net, nmsgs, sentMsgs, shorts>>
  /\ UNCHANGED captured
  /\ UNCHANGED <<qi, devQueue, doneQueue, buf_index, bytesused,
                 payload, qbufFailed, count, frame_number, total_sent, txPayload,
                 txWhole, wire, faults, fatal, clog>>
  /\ UNCHANGED srvVars
  /\ UNCHANGED xioVars

\* A send() on the connection the server has closed: SIGPIPE, which the
\* client does not handle, ends the process.
SigPipe ==
  /\ cpc \in {"send_name_len", "send_name", "send_size", "send_payload"}
  /\ Linked
  /\ ~ConnUp
  /\ cpc' = "killed"
  /\ streaming' = FALSE
  /\ clog' = "SIGPIPE"
  /\ UNCHANGED <<qi, devQueue, doneQueue, buf_index, bytesused, payload,
                 qbufFailed, count, frame_number, total_sent, txPayload, txWhole,
                 wire, captured, faults, fatal>>
  /\ UNCHANGED netVars
  /\ UNCHANGED srvVars
  /\ UNCHANGED xioVars

ClientStep ==
  \/ StartQbuf \/ StreamOn
  \/ SelectReady \/ SelectTimeout \/ SelectError \/ LoopExit
  \/ Dqbuf \/ SendNameLen \/ SendName \/ SendSize \/ SendPayload \/ Qbuf
  \/ CloseAll

ServerStep ==
  \/ Accept \/ AcceptFail
  \/ RecvNameLen \/ RecvName \/ RecvSize \/ OpenFile
  \/ PayloadRecv \/ PayloadDone \/ CloseFile \/ CloseSocket

PeerStep == PeerConnect \/ PeerSend \/ PeerClose

\* The streaming server against arbitrary peers.
Init == NetInit /\ ServerInit /\ ClientIdle
Next == ServerStep \/ PeerStep
Spec == Init /\ [][Next]_vars

\* The capture client alone; what it sends is read by a peer outside the model.
InitProducer == NetInit /\ ServerInit /\ ClientInit
NextProducer == ClientStep \/ DeviceFill
SpecProducer == InitProducer /\ [][NextProducer]_vars

\* The capture client connected to the streaming server, in a run in which
\* no system call of the client fails or falls short and accept succeeds.
NetInitLinked ==
  /\ sock = [c \in ConnIds |-> IF c = ProducerConn THEN "pending" ELSE "none"]
  /\ closes = [c \in ConnIds |-> 0]
  /\ net = <<>>
  /\ peer = "open"
  /\ nmsgs = 0
  /\ sentMsgs = <<>>
  /\ shorts = 0
InitPipeline == NetInitLinked /\ ServerInit /\ ClientStart(MaxFaults)
NextPipeline ==
  \/ StartQbuf \/ StreamOn \/ DeviceFill
  \/ SelectReady \/ SelectTimeout \/ LoopExit
  \/ Dqbuf \/ SendNameLen \/ SendName \/ SendSize \/ SendPayload \/ Qbuf
  \/ CloseAll \/ SigPipe
  \/ Accept \/ RecvNameLen \/ RecvName \/ RecvSize \/ OpenFile
  \/ PayloadRecv \/ PayloadDone \/ CloseFile \/ CloseSocket
SpecPipeline == InitPipeline /\ [][NextPipeline]_vars

(***************************************************************************)
(* Properties of the streaming server against any peer (Spec).             *)
(***************************************************************************)
\* file_size = v, for a count v that fits 31 bits.
LongEquals(m, v) == ~LongNeg(m) /\ ~LongBig(m) /\ LongLow(m) = v

\* The receiver's ParseState at each position of handle_client.
ParseState ==
  CASE spc = "recv_name_len" -> "AwaitingNameLength"
    [] spc = "recv_name" -> "AwaitingName"
    [] spc \in {"recv_size", "fopen"} -> "AwaitingSize"
    [] spc \in {"payload", "fclose"} -> "AwaitingPayload"
    [] OTHER -> "NoSession"

\* A session blocked in a read: nothing has arrived and the peer is silent.
Blocked ==
  /\ spc \in {"recv_name_len", "recv_name", "recv_size", "payload"}
  /\ ~CanRecv
  /\ spc = "recv_name" => IntVal(name_len) # 0
  /\ spc = "payload" => LongGreater(file_size, total_received)

\* The file the message m describes is on the disk, byte for byte.
Stored(m) == m.name \in DOMAIN disk /\ disk[m.name] = m.payload

\* The peer of the session has written whole messages only, the server has
\* read every byte of them and waits for more.
AllRead == Blocked /\ peer = "open" /\ net = <<>> /\ sentMsgs # <<>>

\* C1: round trip.  Once the receiver has read, in whatever segmentation,
\* the one message (name, payloadSize, payloadBytes) that send_frame_via_network
\* wrote, it is ready for the next message and the file called name holds
\* exactly payloadBytes.
C1_RoundTrip ==
  (AllRead /\ Len(sentMsgs) = 1 /\ sentMsgs[1].name = FrameName(nmsgs - 1)) =>
    (spc = "recv_name_len" /\ Stored(sentMsgs[1]))

\* C2: when send_frame_via_network returns, the payload bytes it wrote to the
\* socket are as many as the used length of the buffer, on every path through
\* the send loop.
C2_PayloadMatchesHeader ==
  cpc = "qbuf" => Len(txPayload) = bytesused

\* How many of the three places hold buffer b: the device's incoming queue,
\* the filled buffers awaiting dequeue, the buffer in the transmitter's hands.
Occ(q, b) == Cardinality({i \in 1..Len(q) : q[i] = b})
Places(b) == Occ(devQueue, b) + Occ(doneQueue, b) + (IF buf_index = b THEN 1 ELSE 0)

\* C3: after start_capturing every buffer of the ring is in exactly
\* one place, whatever the outcomes of the dequeue, send and re-queue steps.
C3_Conservation ==
  cpc # "start_qbuf" => \A b \in Buffers : Places(b) = 1

\* C4: whenever the receiver logs a message as saved, the payload bytes it
\* received and wrote equal the payloadSize declared in the header; a message
\* that ended short is not reported as saved.
C4_SavedOnlyWhenComplete ==
  lastLog.kind = "saved" => LongEquals(lastLog.size, lastLog.received)

\* C5: the output-file handle is open only in AwaitingPayload, each opened
\* file is closed exactly once (completion and abort alike), and no handle is
\* open when the receiver turns to the next message or the session ends.
C5_FileHandle ==
  /\ fp.open => ParseState = "AwaitingPayload"
  /\ fopens = fcloses + (IF fp.open THEN 1 ELSE 0)
  /\ ParseState = "AwaitingPayload" => fp.open
  /\ spc \in {"recv_name_len", "close", "accept"} => ~fp.open /\ fcloses = fopens

\* C5 witness: a file was closed on the abort path and another on the
\* completion path of the same session.
C5_Witness ==
  /\ fcloses = 2
  /\ ~fp.open
  /\ lastLog.kind = "saved"
  /\ ~LongEquals(lastLog.size, lastLog.received)

Accepted(c) == sock[c] = "pending" /\ sock'[c] = "accepted"

\* C6: k complete messages written back to back on one connection yield k
\* files, each with the name and the bytes of its own message, and the
\* receiver awaits a further message on the same connection.
C6_BackToBack ==
  (AllRead /\ Len(sentMsgs) >= 2 /\ (\A i \in 1..Len(sentMsgs) : sentMsgs[i].name # <<>>)) =>
    /\ spc = "recv_name_len"
    /\ sock[client_socket] = "accepted"
    /\ fcloses = Len(sentMsgs)
    /\ \A i \in 1..Len(sentMsgs) : Stored(sentMsgs[i])

C8_ResourcesReleased ==
  spc = "accept" =>
    /\ ~fp.open
    /\ \A c \in ConnIds : sock[c] # "accepted" /\ closes[c] <= 1
    /\ \A c \in ConnIds : sock[c] = "closed" <=> closes[c] = 1

\* C9: after a drop right behind the size field the receiver closes the
\* empty file, starts no further message, can always take its next step
\* until the session has ended, and the listener is back at accept with the
\* socket closed, ready for the next connection.
C9_DropAfterSize ==
  \A c \in dropped :
    IF c \in active
      THEN /\ spc \in {"fclose", "recv_name_len", "close"}
           /\ total_received = 0
           /\ disk[CStr(filename)] = <<>>
           /\ spc = "fclose" => fp.open /\ fp.path = CStr(filename)
           /\ spc # "fclose" => ~fp.open /\ fcloses = fopens
           /\ ENABLED (CloseFile \/ RecvNameLen \/ CloseSocket)
      ELSE /\ sock[c] = "closed"
           /\ closes[c] = 1
           /\ spc = "accept" \/ client_socket # c
           /\ (spc = "accept" /\ Pending # {}) => ENABLED Accept

\* C9 witness: the session that was dropped behind the size field is over
\* and the listener has accepted the next connection.
C9_Witness ==
  /\ 1 \in dropped
  /\ sock[1] = "closed"
  /\ client_socket = 2
  /\ sock[2] = "accepted"

(***************************************************************************)
(* Properties of the capture client (SpecProducer).                        *)
(***************************************************************************)
\* C10: once the readiness wait or a dequeue has failed fatally, the capture
\* loop has stopped: no further acquisition is attempted.
C10_FatalStopsLoop ==
  fatal # "none" => cpc \in {"closing", "exited"}

(***************************************************************************)
(* Properties of the client connected to the server (SpecPipeline).        *)
(***************************************************************************)
\* The run is over: the client has left main or was killed, and the server
\* has closed the session.
RunEnded == cpc \in {"exited", "killed"} /\ sock[ProducerConn] = "closed"

\* C11: when a run of FRAME_COUNT captured frames over one connection has
\* ended, exactly FRAME_COUNT files exist on the receiving side and the i-th
\* file has the used length the device reported for the i-th frame.
C11_EndToEnd ==
  (RunEnded /\ Len(captured) = FRAME_COUNT) =>
    /\ Cardinality(DOMAIN disk) = FRAME_COUNT
    /\ \A i \in 1..FRAME_COUNT :
         /\ FrameName(i - 1) \in DOMAIN disk
         /\ Len(disk[FrameName(i - 1)]) = captured[i]

\* The ring after start_capturing queued every buffer and every later
\* VIDIOC_QBUF succeeded, with read_frame between two frames.
RingIntact == cpc \in {"select", "dqbuf", "closing", "exited"} /\ qbufFailed = {}

\* C12: starting with all buffers queued to the device, after any number of
\* dequeue/re-queue pairs of read_frame that each succeeded, every buffer is
\* again owned by the device exactly once (waiting or filled) and read_frame
\* holds none: the set of buffer states is the initial all-queued one.
C12_RingIdempotence ==
  RingIntact =>
    /\ buf_index = NoBuf
    /\ \A b \in Buffers : Occ(devQueue, b) + Occ(doneQueue, b) = 1

\* Two pairs completed, so the ring has rotated.
C12_Witness ==
  /\ RingIntact
  /\ cpc = "select"
  /\ frame_number >= 2
  /\ count = FRAME_COUNT - 2
  /\ devQueue \o doneQueue # <<0, 1, 2, 3>>

\* C13: a message with payloadSize = 0 leaves AwaitingPayload for Done
\* without a payload read on the connection (the loop's recv is never
\* reached, the loop exit is), and the file, named after the received name,
\* stays at zero bytes.
C13_ZeroPayload ==
  (spc \in {"payload", "fclose"} /\ LongEquals(file_size, 0)) =>
    /\ ~ENABLED PayloadRecv
    /\ spc = "payload" => ENABLED PayloadDone
    /\ total_received = 0
    /\ lastLog.kind # "unexpected_disconnection"
    /\ fp.open /\ fp.path = CStr(filename)
    /\ disk[fp.path] = <<>>

\* The loop was left for a size of 0 while bytes of a next message wait.
C13_Witness ==
  /\ spc = "fclose"
  /\ LongEquals(file_size, 0)
  /\ fp.path = NameOf(MaxNameLen, 0)
  /\ disk[fp.path] = <<>>
  /\ net # <<>>

\* C14: a message with nameLength = 0 is rejected in a defined way: the
\* name's read stores nothing in the name buffer (so nothing outside it),
\* consumes nothing, creates no file, reports the error and ends the session.
C14_EmptyName ==
  [][(spc = "recv_name" /\ IntVal(name_len) = 0 /\ spc' # spc) =>
       /\ spc' = "close"
       /\ lastLog'.kind = "name_error"
       /\ filename' = <<>> /\ Len(filename') <= NAME_BUF
       /\ net' = net
       /\ disk' = disk /\ fopens' = fopens /\ fp' = fp]_vars

\* The message was rejected with the rest of it still unread.
C14_Witness ==
  /\ spc = "close"
  /\ lastLog.kind = "name_error"
  /\ IntVal(name_len) = 0
  /\ net # <<>>
  /\ peer = "open"

\* The bytes a step of the receiver took off the connection.
Consumed == Len(net) - Len(net')

\* C15: the receiver leaves a header state only with the whole field read:
\* AwaitingNameLength after exactly 4 bytes, AwaitingName after exactly
\* nameLength bytes, AwaitingSize after exactly 8 bytes, however the stream
\* is segmented.
C15_WholeField ==
  [][/\ (spc = "recv_name_len" /\ spc' = "recv_name") => Consumed = INT_BYTES
     /\ (spc = "recv_name" /\ spc' = "recv_size") => Consumed = IntVal(name_len)
     /\ (spc = "recv_size" /\ spc' = "fopen") => Consumed = LONG_BYTES]_vars

\* The receiver is in AwaitingPayload (or has just left the loop) of the
\* first message of the run's first session, with the name and the
\* payloadSize of that message, and the peer has written a second message
\* behind it.
OnFirstOfTwo ==
  /\ spc \in {"payload", "fclose"}
  /\ client_socket = 1 /\ fopens = 1 /\ fcloses = 0
  /\ Len(sentMsgs) = 2 /\ peer = "open"
  /\ fp.path = sentMsgs[1].name
  /\ LongEquals(file_size, Len(sentMsgs[1].payload))

\* C16: in AwaitingPayload a read asks for at most
\* min(BUFFER_SIZE, payloadSize - bytesReceivedSoFar) bytes, so
\* bytesReceivedSoFar never exceeds payloadSize, the file holds what was
\* received and never more than payloadSize bytes, and every byte of a
\* following message is still unread.
C16_PayloadBounded ==
  /\ (spc \in {"payload", "fclose"} /\ ~LongNeg(file_size)) =>
       /\ LongBig(file_size) \/ total_received <= LongLow(file_size)
       /\ Len(disk[fp.path]) = total_received
       /\ (spc = "payload" /\ LongGreater(file_size, total_received)) =>
            /\ BytesToRead >= 1 /\ BytesToRead <= BUFFER_SIZE
            /\ LongBig(file_size)
                 \/ BytesToRead <= LongLow(file_size) - total_received
  /\ OnFirstOfTwo =>
       Len(net) >= Len(Encode(sentMsgs[2].name, sentMsgs[2].payload))

\* The first message's payload was read in two chunks and the loop left with
\* the second message waiting whole.
C16_Witness ==
  /\ OnFirstOfTwo
  /\ spc = "fclose"
  /\ shorts = 1
  /\ total_received = MaxPayload
  /\ disk[fp.path] = sentMsgs[1].payload
  /\ net = Encode(sentMsgs[2].name, sentMsgs[2].payload)

\* The payload loop was left on a read that returned <= 0 with bytes missing.
Aborted ==
  /\ spc = "fclose"
  /\ lastLog.kind = "unexpected_disconnection"
  /\ LongGreater(file_size, total_received)

\* C17: a payload abort ends the session: the file is closed with the partial
\* content, and the receiver goes to the end of the session without another
\* read on the connection and without starting a new message.
C17_AbortEndsSession ==
  [][(Aborted /\ spc' # spc) =>
       /\ ~fp'.open
       /\ disk' = disk
       /\ spc' = "close"]_vars

\* The header send_frame_via_network writes for the frame being sent.
Header == LE(Len(CurName), INT_BYTES) \o CurName \o LE(bytesused, LONG_BYTES)

\* C18: producer framing.  Once the producer is past the header of a frame
\* (in the payload loop or done with the frame), the stream holds for that
\* frame the whole nameLength, name and payloadSize fields in this order,
\* followed by the payload bytes written so far and nothing else, also when a
\* write accepted fewer bytes than requested.
C18_Framing ==
  cpc \in {"send_payload", "qbuf"} => wire = Header \o txPayload

\* What holds of the payload loop's variables at every moment of a frame's
\* payload phase.
PayloadLoopInv ==
  /\ cpc \in {"send_payload", "qbuf"} =>
       /\ total_sent <= bytesused
       /\ txPayload = Take(payload, total_sent)
       /\ Len(wire) >= total_sent
       /\ Drop(wire, Len(wire) - total_sent) = txPayload
  /\ cpc = "send_payload" => total_sent < bytesused /\ ENABLED SendPayload
  /\ (cpc = "qbuf" /\ faults = 0) => total_sent = bytesused

\* C19: payload send loop.  total_sent is the number of payload bytes on the
\* stream, which are the buffer's first total_sent bytes (a short write is
\* not an error and is followed by a write from offset total_sent);
\* total_sent only grows, by what the write returned, and never exceeds
\* usedLength; the loop runs only while total_sent < usedLength and is left
\* exactly when total_sent = usedLength or a write returned a negative result.
C19_PayloadLoop ==
  /\ []PayloadLoopInv
  /\ [][cpc = "send_payload" =>
          /\ total_sent' >= total_sent
          /\ total_sent' - total_sent = Len(wire') - Len(wire)
          /\ (total_sent' > total_sent /\ total_sent' < bytesused) =>
               cpc' = "send_payload"
          /\ (faults' # faults /\ total_sent' = total_sent) => cpc' = "qbuf"
          /\ cpc' # "send_payload" =>
               total_sent' = bytesused \/ total_sent' = total_sent]_vars

\* After a short write of a 2-byte payload the loop is about to write the rest.
C19_Witness ==
  /\ cpc = "send_payload"
  /\ bytesused = MaxPayload
  /\ total_sent = 1
  /\ txPayload = Take(payload, 1)
  /\ faults = 1

\* The positions of read_frame between its VIDIOC_DQBUF and its VIDIOC_QBUF.
Sending == {"send_name_len", "send_name", "send_size", "send_payload"}

\* The buffers neither the device nor a failed VIDIOC_QBUF accounts for:
\* those the producer holds dequeued.
Held == {b \in Buffers : Occ(devQueue, b) + Occ(doneQueue, b) = 0
                          /\ b \notin qbufFailed}

\* What holds of the capture loop at every moment after start_capturing.
LockStepInv ==
  cpc # "start_qbuf" =>
    /\ Cardinality(Held) <= 1
    /\ Held = (IF buf_index = NoBuf THEN {} ELSE {buf_index})
    /\ buf_index # NoBuf <=> cpc \in Sending \cup {"qbuf"}
    /\ (fatal = "none" /\ cpc \in {"select", "dqbuf", "send_name_len"}) =>
         count = FRAME_COUNT - frame_number
    /\ (fatal = "none" /\ cpc \in {"send_name", "send_size", "send_payload",
                                   "qbuf"}) =>
         count = FRAME_COUNT - (frame_number - 1)

\* C20: lock-step ordering per frame.  A buffer is dequeued only while none
\* is held; it is re-queued only when its send has returned, and in that
\* step the counter is decremented, so that the next dequeue finds the
\* counter decremented; the producer holds at most one dequeued buffer and
\* the device never gets a buffer back while its send is in progress.
C20_LockStep ==
  /\ []LockStepInv
  /\ [][/\ Len(doneQueue') < Len(doneQueue) =>
             /\ cpc = "dqbuf" /\ buf_index = NoBuf
             /\ buf_index' = Head(doneQueue)
             /\ cpc' = "send_name_len" /\ count' = count
        /\ (cpc \in Sending) =>
             /\ buf_index' = buf_index /\ count' = count
             /\ Occ(devQueue', buf_index) + Occ(doneQueue', buf_index) = 0
        /\ (cpc # "start_qbuf" /\ Len(devQueue') > Len(devQueue)) =>
             /\ cpc = "qbuf"
             /\ devQueue' = Append(devQueue, buf_index)
             /\ buf_index' = NoBuf
             /\ count' = count - 1
             /\ cpc' = "select"]_vars

\* The second frame's buffer has just been dequeued, after the first was
\* sent, given back and counted.
C20_Witness ==
  /\ cpc = "send_name_len"
  /\ frame_number = 1
  /\ count = FRAME_COUNT - 1
  /\ buf_index = 1
  /\ qbufFailed = {}
  /\ Occ(devQueue, 0) + Occ(doneQueue, 0) = 1

(***************************************************************************)
(* Further properties of the capture client (SpecProducer).                *)
(***************************************************************************)
\* main_loop is at the head of its loop or has left it: no frame is in work.
AtLoopHead == cpc \in {"select", "closing", "exited"}

\* C21: frame accounting.  Whenever the capture loop is between two frames,
\* FRAME_COUNT minus the remaining counter is the number of frames handed to
\* send_frame_via_network so far, so a loop that ends with the counter at
\* zero has sent exactly FRAME_COUNT frames.
C21_FrameAccounting ==
  AtLoopHead => FRAME_COUNT - count = frame_number

\* C22: when readiness was reported and VIDIOC_DQBUF fails with EAGAIN (no
\* buffer is filled), the capture loop sends nothing, re-queues nothing,
\* keeps the remaining counter and the frame number, and waits again.
C22_NotReady ==
  [][(cpc = "dqbuf" /\ doneQueue = <<>> /\ cpc' # cpc /\ faults' = faults) =>
       /\ cpc' = "select"
       /\ count' = count /\ frame_number' = frame_number
       /\ wire' = wire /\ net' = net
       /\ devQueue' = devQueue /\ doneQueue' = doneQueue
       /\ buf_index' = NoBuf /\ qbufFailed' = qbufFailed
       /\ fatal' = fatal]_vars

\* The loop waits again after a readiness report that no filled buffer backed.
C22_Witness ==
  /\ cpc = "select"
  /\ faults = 1 /\ fatal = "none"
  /\ streaming /\ qbufFailed = {}
  /\ doneQueue = <<>>
  /\ frame_number = 0 /\ count = FRAME_COUNT

\* How often buffer b is with the device, waiting or filled.
WithDevice(b) == Occ(devQueue, b) + Occ(doneQueue, b)

\* C23: a timeout of the readiness wait is not fatal.  Whenever no buffer is
\* filled the loop can time out; a step that starts and ends in the wait
\* performs no acquire and keeps the remaining counter, the frame number and
\* every buffer where it is; and the loop is left from the wait only with the
\* counter at zero or on a failed select(), however many timeouts went before.
C23_TimeoutNotFatal ==
  /\ []((cpc = "select" /\ count > 0 /\ doneQueue = <<>>) =>
          ENABLED SelectTimeout)
  /\ [][cpc = "select" =>
          /\ cpc' = "select" =>
               /\ count' = count /\ frame_number' = frame_number
               /\ buf_index' = buf_index /\ qbufFailed' = qbufFailed
               /\ \A b \in Buffers : WithDevice(b)' = WithDevice(b)
               /\ wire' = wire /\ faults' = faults /\ fatal' = fatal
          /\ cpc' = "closing" => count <= 0 \/ fatal' = "select"
          /\ cpc' \in {"select", "dqbuf", "closing"}]_vars

\* VIDIOC_STREAMON failed, so no buffer is ever filled and the wait of the
\* first frame times out again and again.
C23_Witness ==
  /\ cpc = "select"
  /\ ~streaming /\ clog = "Stream ON error"
  /\ doneQueue = <<>>
  /\ count = FRAME_COUNT
  /\ ENABLED SelectTimeout
  /\ ~ENABLED SelectReady

\* C24: a VIDIOC_QBUF that fails after the frame was sent is not fatal: the
\* frame counts (the remaining counter is decremented), nothing is marked
\* fatal, and the loop is back at its head, where it goes on to the next
\* acquisition while frames remain.
C24_ReleaseFailure ==
  /\ [][(cpc = "qbuf" /\ qbufFailed' # qbufFailed) =>
          /\ count' = count - 1
          /\ cpc' = "select"
          /\ fatal' = fatal
          /\ buf_index' = NoBuf
          /\ frame_number' = frame_number]_vars
  /\ []((cpc = "select" /\ count > 0 /\ qbufFailed # {}) =>
          ENABLED SelectReady \/ ENABLED SelectTimeout)

\* The re-queue of the first frame's buffer failed, and the second frame's
\* buffer has been dequeued.
C24_Witness ==
  /\ cpc = "send_name_len"
  /\ qbufFailed = {0}
  /\ buf_index = 1
  /\ count = FRAME_COUNT - 1
  /\ frame_number = 1
  /\ fatal = "none"

(***************************************************************************)
(* Further properties of the streaming server (Spec).                      *)
(***************************************************************************)
\* A step in which a header read of handle_client returned <= 0: the
\* receiver leaves a header state and has taken nothing off the connection.
HeaderReadFailed ==
  /\ spc \in {"recv_name_len", "recv_name", "recv_size"}
  /\ spc' # spc
  /\ net' = net

\* C25: a read that yields <= 0 bytes in AwaitingNameLength, AwaitingName or
\* AwaitingSize ends the session with no output file created or opened for
\* the message: reported as a disconnection in AwaitingNameLength and as an
\* error in the other two states.
C25_HeaderReadEnds ==
  [][HeaderReadFailed =>
       /\ spc' = "close"
       /\ disk' = disk /\ fopens' = fopens
       /\ ~fp'.open
       /\ lastLog'.kind = (CASE spc = "recv_name_len" -> "disconnected"
                             [] spc = "recv_name" -> "name_error"
                             [] spc = "recv_size" -> "size_error")]_vars

\* The peer closed after the name: the size's read returned 0 and the
\* session is about to end with nothing on the disk.
C25_Witness ==
  /\ spc = "close"
  /\ lastLog.kind = "size_error"
  /\ peer = "fin"
  /\ filename # <<>>
  /\ DOMAIN disk = {}

\* C26: the output file is opened exactly on the way from AwaitingSize to
\* AwaitingPayload, after the size was read, and starts empty; if it cannot
\* be created the session is over: no payload byte is read, nothing is
\* written, and the connection is never read again (a session is only ever
\* started on a connection that waits to be accepted).
C26_OpenAtPayload ==
  [][/\ (fopens' > fopens \/ (fp'.open /\ ~fp.open)) =>
          /\ spc = "fopen" /\ spc' = "payload"
          /\ fopens' = fopens + 1
          /\ fp'.path = CStr(filename)
          /\ disk'[fp'.path] = <<>> /\ total_received' = 0
     /\ (spc' = "fopen" /\ spc # "fopen") => spc = "recv_size" /\ Consumed >= 1
     /\ (spc = "fopen" /\ spc' # "payload" /\ spc' # spc) =>
          /\ spc' = "accept" /\ client_socket' = NoConn
          /\ lastLog'.kind = "create_error"
          /\ disk' = disk /\ fopens' = fopens /\ ~fp'.open
          /\ total_received' = 0
     /\ (client_socket' # client_socket /\ client_socket' # NoConn) =>
          sock[client_socket'] = "pending"]_vars

\* The file of the first session's message could not be created: handle_client
\* has returned and nothing is on the disk.
C26_Witness ==
  /\ spc = "accept"
  /\ lastLog.kind = "create_error"
  /\ sock[1] = "accepted"
  /\ client_socket = NoConn
  /\ fopens = 0 /\ DOMAIN disk = {}

\* The receiver is in AwaitingPayload (or has just left the loop) of the only
\* message the run's first peer has written, and it entered the state at the
\* payload's first byte.
OnPayloadOfFirst ==
  /\ spc \in {"payload", "fclose"}
  /\ client_socket = 1 /\ fopens = 1 /\ fcloses = 0
  /\ Len(sentMsgs) = 1 /\ nmsgs = 1 /\ peer = "open"
  /\ LongEquals(file_size, Len(sentMsgs[1].payload))
  /\ Len(net) + total_received = Len(sentMsgs[1].payload)

\* C27: streaming write.  A payload read and the write of its chunk are one
\* step, so the chunk, of at most BUFFER_SIZE bytes, is in the file before
\* the next read: the file grows by exactly the bytes the read took off the
\* connection, appended in their order.  In every state of AwaitingPayload
\* the file holds bytesReceivedSoFar bytes, the first of the payload in
\* arrival order.
C27_StreamingWrite ==
  /\ [][(spc = "payload" /\ total_received' # total_received) =>
          /\ Consumed >= 1 /\ Consumed <= BUFFER_SIZE
          /\ total_received' = total_received + Consumed
          /\ fp' = fp
          /\ disk' = [disk EXCEPT ![fp.path] = @ \o Take(net, Consumed)]]_vars
  /\ [](spc \in {"payload", "fclose"} =>
          fp.open /\ Len(disk[fp.path]) = total_received)
  /\ [](OnPayloadOfFirst =>
          disk[fp.path] = Take(sentMsgs[1].payload, total_received))

\* The first of two payload bytes is in the file, the second not yet read.
C27_Witness ==
  /\ OnPayloadOfFirst
  /\ spc = "payload"
  /\ total_received = 1
  /\ Len(net) = 1
  /\ disk[fp.path] = Take(sentMsgs[1].payload, 1)

(***************************************************************************)
(* The streaming server against peers that declare any name length         *)
(* (SpecNames).                                                            *)
(***************************************************************************)
\* The name lengths a peer declares: negative, short, and around the size of
\* the receiver's name buffer.
DeclaredLens == {0 - 1, MaxNameLen, NAME_BUF - 1, NAME_BUF, NAME_BUF + 1}

\* The bytes that follow a declared name length d: d name bytes, none of
\* them 0; behind a negative length, which no name can have, more bytes than
\* the buffer takes.
LongName(d) == [i \in 1..(IF d < 0 THEN NAME_BUF + 1 ELSE d) |-> 97]

\* The peer of the session writes one message with a declared name length,
\* the name, the size and the payload.
PeerSendNamed ==
  /\ client_socket # NoConn
  /\ peer = "open"
  /\ net = <<>>
  /\ nmsgs < MaxNamed
  /\ \E d \in DeclaredLens, pl \in 0..MaxPayload :
       net' = LE(d, INT_BYTES) \o LongName(d) \o LE(pl, LONG_BYTES)
                \o PayloadOf(pl, nmsgs)
  /\ nmsgs' = nmsgs + 1
  /\ UNCHANGED <<sock, closes, peer, sentMsgs, shorts>>
  /\ UNCHANGED srvVars
  /\ UNCHANGED xioVars
  /\ UNCHANGED cliVars
  /\ UNCHANGED xioVars

\* recv() has written past the end of filename: the process is killed (at
\* the latest by the stack protector on return), or nothing it uses later was
\* hit and it goes on to the size.
Overflowed ==
  /\ spc = "overflow"
  /\ spc' \in {"crashed", "recv_size"}
  /\ UNCHANGED netVars
  /\ UNCHANGED <<active, client_socket, name_len, filename, file_size,
                 total_received, fp, disk, fopens, fcloses, lastLog, dropped>>
  /\ UNCHANGED cliVars
  /\ UNCHANGED xioVars

\* fopen(filename, "wb") of a name with no 0 inside the buffer: the path is
\* read on into the memory behind it.  The process is killed, or the file is
\* created under the stored bytes followed by whatever bytes come before the
\* next 0.
OpenUnterminated ==
  /\ spc = "fopen"
  /\ ~Terminated
  /\ \/ /\ spc' = "crashed"
        /\ UNCHANGED <<fp, disk, fopens, total_received>>
     \/ \E tail \in {<<>>, <<255>>} :
          LET path == CStr(filename) \o tail IN
          /\ fp' = [open |-> TRUE, path |-> path]
          /\ disk' = (path :> <<>>) @@ disk
          /\ fopens' = fopens + 1
          /\ total_received' = 0
          /\ spc' = "payload"
  /\ UNCHANGED netVars
  /\ UNCHANGED <<active, client_socket, name_len, filename, file_size,
                 fcloses, lastLog, dropped>>
  /\ UNCHANGED cliVars
  /\ UNCHANGED xioVars

NextNames ==
  \/ PeerConnect \/ PeerSendNamed \/ PeerClose
  \/ Accept \/ RecvNameLen \/ RecvName \/ RecvSize \/ OpenFile
  \/ PayloadRecv \/ PayloadDone \/ CloseFile \/ CloseSocket
  \/ Overflowed \/ OpenUnterminated
SpecNames == Init /\ [][NextNames]_vars

\* C28: whatever name length the sender declares, at most NAME_BUF bytes are
\* stored into filename, and the name passed to fopen() has its terminating
\* 0 inside the buffer.
C28_NameFits ==
  /\ Len(filename) <= NAME_BUF
  /\ spc = "fopen" => Terminated

\* send_frame_via_network has formatted the name of its frame and not yet
\* returned.
InSendFrame == cpc \in {"send_name", "send_size", "send_payload", "qbuf"}

\* What holds of the frame names at every moment of a run.
FrameNamesInv ==
  /\ frame_number \in 0..FRAME_COUNT
  /\ \A j, k \in 0..(FRAME_COUNT - 1) :
       j # k => FrameName(j) # FrameName(k)
  /\ (InSendFrame /\ fatal = "none") => frame_number - 1 = FRAME_COUNT - count
  /\ (InSendFrame /\ txWhole /\ cpc # "send_name") =>
       /\ Len(wire) >= INT_BYTES + Len(FrameName(0))
       /\ SubSeq(wire, INT_BYTES + 1, INT_BYTES + Len(FrameName(0)))
            = FrameName(frame_number - 1)

\* C29: sequential filenames.  The k-th call of send_frame_via_network (k
\* from 0) sends the name "frame_%04d.raw" of k; the frame number grows only
\* there, by exactly one per call whether or not its sends succeeded; and the
\* names of the at most FRAME_COUNT frames of a run are all different.
C29_SequentialNames ==
  /\ []FrameNamesInv
  /\ [][/\ frame_number' # frame_number =>
             cpc = "send_name_len" /\ frame_number' = frame_number + 1
        /\ (cpc = "send_name_len" /\ cpc' # cpc) =>
             cpc' = "send_name" /\ frame_number' = frame_number + 1]_vars

\* The second frame's name is on the stream although a send of the first
\* frame had failed or fallen short.
C29_Witness ==
  /\ cpc = "send_size"
  /\ frame_number = 2
  /\ count = FRAME_COUNT - 1
  /\ faults = 1 /\ fatal = "none" /\ qbufFailed = {} /\ streaming
  /\ txWhole
  /\ wire = LE(Len(FrameName(1)), INT_BYTES) \o FrameName(1)

(***************************************************************************)
(* server.c, the server that handles one message per connection            *)
(* (SpecOneShot).  Its main accepts, calls handle_client and closes the    *)
(* connection; its handle_client reads the three header fields as the      *)
(* streaming server does (server.c:39-70), with return where that one has  *)
(* break, so Accept, RecvNameLen, RecvName, RecvSize, PayloadDone and      *)
(* CloseSocket describe it as well.                                        *)
(***************************************************************************)
\* BUFFER_SIZE of server.c.
BUFFER_SIZE_ONESHOT == 1024

\* sprintf(save_path, "server_%s", filename).
SavePath == <<115, 101, 114, 118, 101, 114, 95>> \o CStr(filename)

\* fopen(save_path, "wb"), then total_received = 0; on NULL handle_client
\* returns and main closes the connection.
OneShotOpenFile ==
  /\ spc = "fopen"
  /\ Terminated
  /\ \E ok \in BOOLEAN :
       IF ok
         THEN /\ fp' = [open |-> TRUE, path |-> SavePath]
              /\ disk' = (SavePath :> <<>>) @@ disk
              /\ fopens' = fopens + 1
              /\ spc' = "payload"
              /\ UNCHANGED lastLog
         ELSE /\ lastLog' = MainLog("create_error")
              /\ spc' = "close"
              /\ UNCHANGED <<fp, disk, fopens>>
  /\ total_received' = 0
  /\ UNCHANGED netVars
  /\ UNCHANGED <<active, client_socket, name_len, filename, file_size,
                 fcloses, dropped>>
  /\ UNCHANGED cliVars
  /\ UNCHANGED xioVars

\* One iteration of while (total_received < file_size): recv of up to
\* BUFFER_SIZE bytes, whatever is still missing, and fwrite of what came; a
\* recv that returns <= 0 leaves the loop.
OneShotPayloadRecv ==
  /\ spc = "payload"
  /\ LongGreater(file_size, total_received)
  /\ CanRecv
  /\ IF net # <<>>
       THEN \E k \in RecvCounts(BUFFER_SIZE_ONESHOT) :
              /\ disk' = [disk EXCEPT ![fp.path] = @ \o Take(net, k)]
              /\ total_received' = total_received + k
              /\ net' = Drop(net, k)
              /\ shorts' = ShortsAfter(BUFFER_SIZE_ONESHOT, k)
              /\ UNCHANGED spc
       ELSE /\ spc' = "fclose"
            /\ UNCHANGED <<disk, total_received, net, shorts>>
  /\ UNCHANGED <<sock, closes, peer, nmsgs, sentMsgs>>
  /\ UNCHANGED <<active, client_socket, name_len, filename, file_size,
                 fp, fopens, fcloses, lastLog, dropped>>
  /\ UNCHANGED cliVars
  /\ UNCHANGED xioVars

\* fclose(fp); printf("File saved"); handle_client returns to main.
OneShotCloseFile ==
  /\ spc = "fclose"
  /\ fp' = NoFile
  /\ fcloses' = fcloses + 1
  /\ lastLog' = Log("saved")
  /\ spc' = "close"
  /\ UNCHANGED netVars
  /\ UNCHANGED <<active, client_socket, name_len, filename, file_size,
                 total_received, disk, fopens, dropped>>
  /\ UNCHANGED cliVars
  /\ UNCHANGED xioVars

NextOneShot ==
  \/ PeerConnect \/ PeerSend \/ PeerClose
  \/ Accept \/ RecvNameLen \/ RecvName \/ RecvSize
  \/ OneShotOpenFile \/ OneShotPayloadRecv \/ PayloadDone \/ OneShotCloseFile
  \/ CloseSocket
SpecOneShot == Init /\ [][NextOneShot]_vars

\* C30: in the one-message-per-connection server the bytes written to the
\* output file never exceed the payloadSize of the header, also when more
\* bytes follow the payload on the connection.
C30_OneShotBounded ==
  (spc \in {"payload", "fclose"} /\ ~LongNeg(file_size)
     /\ ~LongBig(file_size)) =>
    /\ total_received <= LongLow(file_size)
    /\ Len(disk[fp.path]) <= LongLow(file_size)

(***************************************************************************)
(* The capture client under fair scheduling (SpecLive): the process takes  *)
(* its next step, the streaming device fills a waiting buffer, a send      *)
(* returns.  The device may refuse buffers when the capture starts, up to  *)
(* all NBUF of them.                                                       *)
(***************************************************************************)
InitLive ==
  NetInit /\ ServerInit /\ \E f \in (MaxFaults - NBUF)..0 : ClientStart(f)

Fairness ==
  /\ WF_vars(DeviceFill)
  /\ WF_vars(StartQbuf) /\ WF_vars(StreamOn)
  /\ WF_vars(SelectReady) /\ WF_vars(LoopExit)
  /\ WF_vars(Dqbuf)
  /\ WF_vars(SendNameLen) /\ WF_vars(SendName) /\ WF_vars(SendSize)
  /\ WF_vars(SendPayload)
  /\ WF_vars(Qbuf) /\ WF_vars(CloseAll)

SpecLive == InitLive /\ [][NextProducer]_vars /\ Fairness

\* The capture loop is running.
Capturing == cpc \notin {"closing", "exited"}

\* The device's side of the claim: whenever a buffer waits in its queue
\* during the capture, a filled buffer is there later on.
DeviceServes ==
  []((Capturing /\ devQueue # <<>>) => <>(doneQueue # <<>> \/ ~Capturing))

\* C31: capture-run liveness.  If the device fills a queued buffer whenever
\* one is queued, and every send completes, the capture loop terminates, with
\* the remaining counter at zero unless a fatal error ended it; and the loop
\* is left for no other reason.
C31_RunTerminates ==
  /\ [](~Capturing => (count <= 0 \/ fatal = "select"))
  /\ DeviceServes => <>(cpc = "exited" /\ (count <= 0 \/ fatal = "select"))

(***************************************************************************)
(* xioctl (client.c), one invocation followed call by call (SpecXioctl).   *)
(* The caller passes one of the requests the client uses; r is not         *)
(* initialised and errno holds whatever an earlier call left; a bounded    *)
(* number of signals arrives while the invocation runs.                    *)
(***************************************************************************)
Requests ==
  {"VIDIOC_S_FMT", "VIDIOC_REQBUFS", "VIDIOC_QUERYBUF", "VIDIOC_QBUF",
   "VIDIOC_STREAMON", "VIDIOC_DQBUF"}

\* The errors of ioctl() other than EINTR that the client meets.
OtherErrnos == {"EAGAIN", "EINVAL"}

Errnos == {"none", "EINTR"} \cup OtherErrnos

InitXioctl ==
  /\ NetInit /\ ServerInit /\ ClientOff
  /\ xpc = "call"
  /\ request \in Requests
  /\ ret \in {0, 0 - 1}
  /\ errno \in Errnos
  /\ results = <<>>
  /\ signals \in 0..MaxIntr

\* What one ioctl() may do to <<r, errno>>: succeed (0, errno untouched),
\* fail with an error, or, when a signal arrives, fail with EINTR.
IoctlOutcomes ==
  {<<0, errno>>} \cup {<<0 - 1, e>> : e \in OtherErrnos}
    \cup (IF signals > 0 THEN {<<0 - 1, "EINTR">>} ELSE {})

\* r = ioctl(fh, request, arg).
XioctlCall ==
  /\ xpc = "call"
  /\ \E o \in IoctlOutcomes :
       /\ ret' = o[1]
       /\ errno' = o[2]
       /\ signals' = IF o = <<0 - 1, "EINTR">> THEN signals - 1 ELSE signals
       /\ results' = Append(results, [request |-> request, r |-> o[1],
                                      errno |-> o[2]])
  /\ xpc' = "test"
  /\ UNCHANGED request
  /\ UNCHANGED <<netVars, srvVars, cliVars>>

\* The loop going on whenever errno is EINTR, whatever ioctl() returned.
Retry_OnErrno(res, e) == e = "EINTR"

\* while (-1 == r && errno == EINTR).
Retry(res, e) == res = 0 - 1 /\ e = "EINTR"

\* The loop condition, and return r when it is false.
XioctlTest ==
  /\ xpc = "test"
  /\ xpc' = IF Retry(ret, errno) THEN "call" ELSE "returned"
  /\ UNCHANGED <<request, ret, errno, results, signals>>
  /\ UNCHANGED <<netVars, srvVars, cliVars>>

NextXioctl == XioctlCall \/ XioctlTest

\* The process keeps running: a call that can be made is made.
SpecXioctl == InitXioctl /\ [][NextXioctl]_vars /\ WF_vars(NextXioctl)

\* A call that a signal interrupted.
Interrupted(c) == c.r = 0 - 1 /\ c.errno = "EINTR"

\* What holds of an invocation that has returned: every call passed the
\* caller's request, all calls but the last were interrupted, the last was
\* not, and its result is the value returned.
ReturnedInv ==
  xpc = "returned" =>
    /\ results # <<>>
    /\ \A i \in 1..Len(results) : results[i].request = request
    /\ \A i \in 1..(Len(results) - 1) : Interrupted(results[i])
    /\ ~Interrupted(results[Len(results)])
    /\ ret = results[Len(results)].r
    /\ ~(ret = 0 - 1 /\ errno = "EINTR")

\* C32: xioctl repeats the call while it fails with EINTR and returns the
\* result of the first call that succeeded or failed for another reason; it
\* never reports an interruption to its caller; and, with finitely many
\* signals, it returns after finitely many calls.
C32_XioctlRetries ==
  /\ []ReturnedInv
  /\ [][xpc = "test" /\ xpc' = "call" => Interrupted(results[Len(results)])]_vars
  /\ <>(xpc = "returned")

\* xioctl has returned a success after being interrupted, with errno still
\* holding EINTR.
C32_Witness ==
  /\ xpc = "returned"
  /\ Len(results) >= 2
  /\ ret = 0
  /\ errno = "EINTR"

====
